---- MODULE Spec2Model ----
(***************************************************************************)
(* Last.fm music library plugin: the sync engine (syncTracks) and the      *)
(* vault files it maintains (one track record per file name, one history   *)
(* log per local-time year), with the remote service and the triggers      *)
(* (ribbon icon, command, auto-sync timer) as the environment.             *)
(*                                                                         *)
(* Strings that the code inspects character by character (artist, track    *)
(* name, file name) are sequences of one-character strings.  Time is       *)
(* counted in ticks; a year has YearLen ticks.                             *)
(***************************************************************************)
EXTENDS Integers, Sequences, FiniteSets, TLC

\* ------------------------------------------------------------------ bounds
MaxEvents == 3          \* events the remote service holds at most
YearLen == 4            \* ticks per calendar year
MaxStarts == 2          \* syncTracks invocations per behaviour
MaxDeclared == 3        \* largest totalPages a response declares

\* ------------------------------------------------------- program constants
limit == 1              \* page size (200 in the source, scaled)
maxAttempts == 3
Lookback == 20
AUTO_SYNC_INTERVAL_MINUTES == 30
EpochYear == 1970
CurrentYear == 2026     \* new Date().getFullYear()
OldYear == CurrentYear - Lookback - 1

NoUts == -1             \* a track without date.uts ("now playing")
NoAttr == -1            \* a response without @attr.totalPages
Malformed == -1         \* a play_count field the update regex does not match

Min(a, b) == IF a < b THEN a ELSE b
Max(a, b) == IF a > b THEN a ELSE b

\* --------------------------------------------------------------- strings
Illegal == {"*", "\"", "\\", "/", "<", ">", "|", ":", "?"}

RECURSIVE TrimStart(_)
TrimStart(s) ==
  IF s # <<>> /\ Head(s) = " " THEN TrimStart(Tail(s)) ELSE s

RECURSIVE TrimEnd(_)
TrimEnd(s) ==
  IF s # <<>> /\ s[Len(s)] = " " THEN TrimEnd(SubSeq(s, 1, Len(s) - 1)) ELSE s

Trim(s) == TrimEnd(TrimStart(s))

Unknown == <<"U", "n", "k", "n", "o", "w", "n">>

\* x?.trim() || "Unknown"
OrUnknown(s) == IF Trim(s) = <<>> THEN Unknown ELSE Trim(s)

sanitizeFileName(str) ==
  Trim([i \in DOMAIN str |-> IF str[i] \in Illegal THEN "-" ELSE str[i]])

\* `${artist}|${name}`
GroupKey(artist, name) == artist \o <<"|">> \o name

\* `${safeArtist} - ${safeName}.md`
FileNameOf(artist, name) ==
  sanitizeFileName(artist) \o <<" ", "-", " ">> \o sanitizeFileName(name) \o <<".md">>

\* fileName.replace(/\.md$/, "")
LinkName(fileName) ==
  IF fileName # <<>> /\ fileName[Len(fileName)] = ".md"
  THEN SubSeq(fileName, 1, Len(fileName) - 1)
  ELSE fileName

\* ------------------------------------------------------------ time codec
Ts(year, tick) == (year - EpochYear) * YearLen + tick

\* In a zone with daylight saving the clock is set back one tick at FoldTs:
\* the local time of FoldTs repeats that of FoldTs - 1.
FoldTs == Ts(CurrentYear, 3)

LocalTicks(ts, dstZone) == IF dstZone /\ ts >= FoldTs THEN ts - 1 ELSE ts

\* An ISO string is <<local year, local tick of the year>>.
timestampToLocalISO(ts, dstZone) ==
  LET l == LocalTicks(ts, dstZone)
  IN  <<EpochYear + (l \div YearLen), l % YearLen>>

\* new Date(iso): a repeated local time is read as its first occurrence.
localISOToTimestamp(iso, dstZone) ==
  LET l == (iso[1] - EpochYear) * YearLen + iso[2]
  IN  IF dstZone /\ l >= FoldTs THEN l + 1 ELSE l

IsoLeq(a, b) == a[1] < b[1] \/ (a[1] = b[1] /\ a[2] <= b[2])

\* Date.now() / 1000 at the time of a run
NowTs == Ts(CurrentYear, YearLen - 1)

\* --------------------------------------------------------- remote events
ArtistA == <<"a">>
ArtistB == <<"b", " ">>
NameSlash == <<"x", "/">>
NameColon == <<"x", ":">>
NameY == <<"y">>

IdSlash == <<ArtistA, NameSlash>>
IdColon == <<ArtistA, NameColon>>
IdY == <<ArtistB, NameY>>
Identities == {IdSlash, IdColon, IdY}

TsSet == {Ts(OldYear, 1), Ts(CurrentYear, 1), Ts(CurrentYear, 2), Ts(CurrentYear, 3)}

\* what the user listens to: <<identity, timestamp>>
Plays ==
  {<<IdSlash, uts>> : uts \in TsSet}
    \cup {<<IdColon, Ts(CurrentYear, 2)>>, <<IdY, Ts(CurrentYear, 2)>>, <<IdY, NoUts>>}

AlbumAt(uts) ==
  IF uts = NoUts THEN <<>> ELSE IF uts % 2 = 1 THEN <<"L">> ELSE <<"M">>

ImagesAt(uts) ==
  IF uts = NoUts THEN <<>>
  ELSE IF uts % 2 = 1
       THEN <<[text |-> <<"s">>, size |-> "small"],
              [text |-> <<"x", " ">>, size |-> "extralarge"]>>
       ELSE <<[text |-> <<"m">>, size |-> "medium"]>>

\* LastFmTrack
Track(id, uts) ==
  [artist |-> id[1], name |-> id[2], uts |-> uts,
   album |-> AlbumAt(uts), image |-> ImagesAt(uts)]

\* --------------------------------------------------------- pure helpers
\* images.find(extralarge) || images.find(large) || images[0], then its #text
extractBestCover(images) ==
  IF images = <<>> THEN <<>>
  ELSE LET xl == {i \in DOMAIN images : images[i].size = "extralarge"}
           lg == {i \in DOMAIN images : images[i].size = "large"}
           first(S) == CHOOSE i \in S : \A j \in S : i <= j
           img == IF xl # {} THEN images[first(xl)]
                  ELSE IF lg # {} THEN images[first(lg)]
                  ELSE images[1]
       IN  Trim(img.text)

\* the timestamp the watermark filter reads: t.date?.uts ? Number(uts) : 0
FilterTs(t) == IF t.uts # NoUts /\ t.uts # 0 THEN t.uts ELSE 0

\* the timestamp the grouping loop reads: t.date?.uts ? Number(uts) : now
GroupTs(t) == IF t.uts # NoUts /\ t.uts # 0 THEN t.uts ELSE NowTs

\* the filter with the boundary on the wrong side
KeepsNewInclusive(t, lastFetchedTimestamp) == FilterTs(t) >= lastFetchedTimestamp

KeepsNew(t, lastFetchedTimestamp) == FilterTs(t) > lastFetchedTimestamp

\* allNewTracks.filter(t => ts > lastFetchedTimestamp)
TrulyNew(allNewTracks, lastFetchedTimestamp) ==
  SelectSeq(allNewTracks, LAMBDA t : KeepsNew(t, lastFetchedTimestamp))

\* a comparison that lets a later event with the same timestamp win
IsLaterOrSame(ts, latestTs) == ts >= latestTs

\* if (ts > group.latestTs)
IsLater(ts, latestTs) == ts > latestTs

GroupIndex(groups, key) ==
  IF \E i \in DOMAIN groups : groups[i].key = key
  THEN CHOOSE i \in DOMAIN groups : groups[i].key = key
  ELSE 0

\* one iteration of the grouping loop: get-or-create the group, then count++
\* and the latest/first updates
AddToGroups(groups, t, dstZone) ==
  LET artist == OrUnknown(t.artist)
      name == OrUnknown(t.name)
      key == GroupKey(artist, name)
      ts == GroupTs(t)
      iso == timestampToLocalISO(ts, dstZone)
      album == Trim(t.album)
      coverUrl == extractBestCover(t.image)
      fresh == [key |-> key, count |-> 0, latestIso |-> iso, latestTs |-> ts,
                firstIso |-> iso, firstTs |-> ts, album |-> album,
                coverUrl |-> coverUrl, artist |-> artist, name |-> name,
                fileName |-> FileNameOf(artist, name)]
      i == GroupIndex(groups, key)
      gs == IF i = 0 THEN Append(groups, fresh) ELSE groups
      j == IF i = 0 THEN Len(gs) ELSE i
      g0 == gs[j]
      g1 == [g0 EXCEPT !.count = @ + 1]
      g2 == IF IsLater(ts, g1.latestTs)
            THEN [g1 EXCEPT !.latestIso = iso, !.latestTs = ts,
                            !.album = album, !.coverUrl = coverUrl]
            ELSE g1
      g3 == IF ts < g2.firstTs
            THEN [g2 EXCEPT !.firstIso = iso, !.firstTs = ts]
            ELSE g2
  IN  [gs EXCEPT ![j] = g3]

RECURSIVE GroupFrom(_, _, _, _)
GroupFrom(tracks, i, groups, dstZone) ==
  IF i > Len(tracks) THEN groups
  ELSE GroupFrom(tracks, i + 1, AddToGroups(groups, tracks[i], dstZone), dstZone)

\* trackGroups, in the Map's insertion order
TrackGroups(trulyNewTracks, dstZone) == GroupFrom(trulyNewTracks, 1, <<>>, dstZone)

PlayOf(t, dstZone) ==
  [fileName |-> FileNameOf(OrUnknown(t.artist), OrUnknown(t.name)),
   dateIso |-> timestampToLocalISO(GroupTs(t), dstZone),
   ts |-> GroupTs(t)]

\* the comparison of a sort in descending order
PlayBeforeDescending(a, b) == a.ts >= b.ts

\* a play goes before another in the sorted list
PlayBefore(a, b) == a.ts <= b.ts

\* stable insertion of p into a list sorted by ts
RECURSIVE InsertPlay(_, _)
InsertPlay(sorted, p) ==
  IF sorted = <<>> THEN <<p>>
  ELSE IF PlayBefore(sorted[Len(sorted)], p) THEN Append(sorted, p)
  ELSE Append(InsertPlay(SubSeq(sorted, 1, Len(sorted) - 1), p), sorted[Len(sorted)])

RECURSIVE SortPlays(_, _, _)
SortPlays(plays, i, acc) ==
  IF i > Len(plays) THEN acc ELSE SortPlays(plays, i + 1, InsertPlay(acc, plays[i]))

\* historyPlays after historyPlays.sort((a, b) => a.ts - b.ts)
HistoryPlays(trulyNewTracks, dstZone) ==
  SortPlays([i \in DOMAIN trulyNewTracks |-> PlayOf(trulyNewTracks[i], dstZone)], 1, <<>>)

\* ----------------------------------------------------------- file contents
\* track record: the front-matter fields
buildNewTrackContent(g) ==
  [track |-> g.name, artist |-> g.artist, album |-> IF g.album = <<>> THEN <<"-">> ELSE g.album,
   play_count |-> g.count, first_listened_at |-> g.firstIso,
   last_listened_at |-> g.latestIso, cover_url |-> g.coverUrl]

NewPlayCount(stored, newPlays) == stored + newPlays

\* an update that rewrites the first-listened field as well
updateTrackContentResetsFirst(content, newPlays, latestIso) ==
  [content EXCEPT !.play_count = NewPlayCount(@, newPlays),
                  !.last_listened_at = latestIso, !.first_listened_at = latestIso]

updateTrackContent(content, newPlays, latestIso) ==
  LET c1 == IF content.play_count # Malformed
            THEN [content EXCEPT !.play_count = NewPlayCount(@, newPlays)]
            ELSE content
  IN  [c1 EXCEPT !.last_listened_at = latestIso]

\* history log: a sequence of lines
Heading == <<"# History">>
Blank == <<>>
Entry(iso, name) == <<"-", iso, name>>
IsEntry(line) == Len(line) = 3
DefaultHistory == <<Heading, Blank, Blank>>

RECURSIVE SkipBlank(_, _)
SkipBlank(lines, at) ==
  IF at <= Len(lines) /\ lines[at] = Blank THEN SkipBlank(lines, at + 1) ELSE at

\* lines.findIndex(l => l.trim() === "# History"), 1-based (0: not found)
HeadingIndex(lines) ==
  IF \E i \in DOMAIN lines : lines[i] = Heading
  THEN CHOOSE i \in DOMAIN lines : lines[i] = Heading /\ \A j \in 1..(i - 1) : lines[j] # Heading
  ELSE 0

\* the line index (1-based) before which the entry is spliced in
InsertAt(lines) == SkipBlank(lines, HeadingIndex(lines) + 1)

Includes(content, entry) == \E i \in DOMAIN content : content[i] = entry

\* the content appendToHistory writes back, given the content it read
WithEntry(content, entry) ==
  LET c1 == IF Includes(content, Heading) THEN content
            ELSE <<Heading, Blank>> \o content
      at == InsertAt(c1)
  IN  SubSeq(c1, 1, at - 1) \o <<entry>> \o SubSeq(c1, at, Len(c1))

\* iso.slice(0, 4)
YearOf(iso) == iso[1]

\* ------------------------------------------------------ resume-point scan
\* the first line of a log that matches the entry pattern and parses to a
\* truthy timestamp (0: none)
FirstEntryTs(lines, dstZone) ==
  LET ok == {i \in DOMAIN lines :
               IsEntry(lines[i]) /\ localISOToTimestamp(lines[i][2], dstZone) # 0}
  IN  IF ok = {} THEN 0
      ELSE localISOToTimestamp(lines[CHOOSE i \in ok : \A j \in ok : i <= j][2], dstZone)

OldestScanned == CurrentYear - Lookback

RECURSIVE ScanFrom(_, _, _)
ScanFrom(hist, year, dstZone) ==
  IF year < OldestScanned THEN [found |-> FALSE, ts |-> 0]
  ELSE IF year \in DOMAIN hist /\ FirstEntryTs(hist[year], dstZone) # 0
       THEN [found |-> TRUE, ts |-> FirstEntryTs(hist[year], dstZone)]
       ELSE ScanFrom(hist, year - 1, dstZone)

\* the resolver: newest year first, topmost entry of the first log that has one
ResumePoint(hist, dstZone) == ScanFrom(hist, CurrentYear, dstZone)

\* ------------------------------------------------------------------ state
Runs == 1..2            \* syncTracks invocations that can be in flight

VARIABLES
  settings,   \* [apiKey, username]: "" or set; autoSyncEnabled
  dstZone,    \* the runtime's time zone has a daylight-saving fold
  remote,     \* the events the service holds, newest first
  records,    \* track record files that exist: file name -> content
  history,    \* history logs that exist: year -> lines
  run,        \* the locals of each syncTracks invocation
  starts,     \* syncTracks invocations so far
  obs,        \* observer: what the runs so far did to the store
  autoSyncIntervalId,  \* the plugin's field: Null or the id setInterval gave
  window,     \* the runtime's interval timers: the active ids, the last id given
  toggles     \* auto-sync toggle handlers suspended at saveSettings: their values

auto == <<autoSyncIntervalId, window, toggles>>

vars == <<settings, dstZone, remote, records, history, run, starts, obs, auto>>

Null == 0               \* no timer id: the ids the runtime gives are positive
NoTimers == [intervals |-> {}, lastId |-> 0]

NoFrom == -1            \* a request without the from parameter

IdleRun ==
  [pc |-> "idle", result |-> "none", found |-> FALSE, lastFetchedTimestamp |-> 0,
   fromTimestamp |-> 0, page |-> 1, totalPages |-> 1, attempts |-> 0,
   req |-> [page |-> 0, from |-> NoFrom],
   allNewTracks |-> <<>>, trulyNewTracks |-> <<>>, trackGroups |-> <<>>,
   historyPlays |-> <<>>, gi |-> 1, hi |-> 1, buf |-> <<>>, delay |-> 0,
   log |-> <<>>, contributed |-> 0, before |-> [records |-> <<>>, history |-> <<>>]]

NoObs == [same |-> 0, records |-> <<>>, history |-> <<>>, pending |-> "none"]

\* the vault an earlier session left after it synced one play
SeedTracks == <<Track(IdSlash, Ts(CurrentYear, 1))>>

SeedRecords(dst) ==
  LET g == TrackGroups(SeedTracks, dst)[1]
  IN  [f \in {g.fileName} |-> buildNewTrackContent(g)]

SeedHistory(dst) ==
  LET p == HistoryPlays(SeedTracks, dst)[1]
  IN  [y \in {YearOf(p.dateIso)} |->
         WithEntry(DefaultHistory, Entry(p.dateIso, LinkName(p.fileName)))]

\* onload: a fresh vault with the default settings, or the vault and the
\* settings of an earlier session
Init ==
  /\ dstZone \in BOOLEAN
  /\ \E fresh \in BOOLEAN :
       IF fresh
       THEN /\ settings = [apiKey |-> "", username |-> "", autoSyncEnabled |-> FALSE]
            /\ remote = <<>>
            /\ records = <<>>
            /\ history = <<>>
       ELSE /\ settings = [apiKey |-> "k", username |-> "u", autoSyncEnabled |-> FALSE]
            /\ remote = SeedTracks
            /\ records = SeedRecords(dstZone)
            /\ history = SeedHistory(dstZone)
  /\ run = [r \in Runs |-> IdleRun]
  /\ starts = 0
  /\ obs = NoObs
  /\ autoSyncIntervalId = Null
  /\ window = NoTimers
  /\ toggles = <<>>

FetchPcs == {"request", "politeness", "backoff"}
WriterPcs == {"write", "modify", "append", "splice"}
InFlight(r) == run[r].pc # "idle"
CompleteResults == {"done", "nonew", "allrecorded"}

\* what the service answers for one page
Matching(from) == SelectSeq(remote, LAMBDA t : t.uts = NoUts \/ t.uts >= from)

PageOf(seq, page) == SubSeq(seq, (page - 1) * limit + 1, Min(page * limit, Len(seq)))

\* the number of pages the service has for a result list
PagesOf(seq) == (Len(seq) + limit - 1) \div limit

\* every answer the run got was the page asked for, of the events the
\* service holds, with the page count that goes with them
Faithful(cur) ==
  \A i \in DOMAIN cur.log :
    cur.log[i].outcome = "ok" =>
      LET e == cur.log[i]
          m == IF e.from = NoFrom THEN remote ELSE Matching(e.from)
      IN  /\ e.n = Len(PageOf(m, e.page))
          /\ e.page = 1 => e.declared = PagesOf(m)

\* the observer at the end of a run
ObsAtEnd(r) ==
  LET res == run'[r].result
  IN  IF res \in CompleteResults /\ ~Faithful(run'[r])
      THEN NoObs
      ELSE IF res \in CompleteResults
      THEN [same |-> IF obs.same = 0 THEN 1 ELSE 2,
            records |-> IF obs.same = 0 THEN records' ELSE obs.records,
            history |-> IF obs.same = 0 THEN history' ELSE obs.history,
            pending |-> IF obs.pending = "interrupted" THEN "recovered" ELSE obs.pending]
      ELSE IF res = "interrupted"
              /\ (records' # run'[r].before.records \/ history' # run'[r].before.history)
      THEN [NoObs EXCEPT !.pending = "interrupted"]
      ELSE obs

Observe(r) ==
  obs' = IF run[r].pc # "idle" /\ run'[r].pc = "idle" THEN ObsAtEnd(r) ELSE obs

\* ------------------------------------------------------------ environment
\* the settings tab: API key and username typed in
SetCredentials ==
  /\ settings.apiKey = ""
  /\ settings' = [settings EXCEPT !.apiKey = "k", !.username = "u"]
  /\ UNCHANGED <<dstZone, remote, records, history, run, starts, obs, auto>>

Dated(seq) == SelectSeq(seq, LAMBDA t : t.uts # NoUts)

\* the user plays a track: the service lists it first (after a track that is
\* now playing, which carries no date)
Scrobble(id, uts) ==
  /\ Len(remote) < MaxEvents
  /\ starts < MaxStarts
  /\ \A r \in Runs : ~InFlight(r)
  /\ IF uts = NoUts
     THEN /\ Dated(remote) = remote
          /\ remote' = <<Track(id, uts)>> \o remote
     ELSE /\ \A i \in DOMAIN remote : remote[i].uts <= uts
          /\ remote' = IF remote # <<>> /\ Head(remote).uts = NoUts
                       THEN <<Head(remote), Track(id, uts)>> \o Tail(remote)
                       ELSE <<Track(id, uts)>> \o remote
  /\ obs' = NoObs
  /\ UNCHANGED <<settings, dstZone, records, history, run, starts, auto>>

\* ------------------------------------------------------------- syncTracks
\* a loop that stops one page short of the declared count
MorePagesStrict(page, totalPages) == page < totalPages

\* a loop that asks for one page past the declared count
MorePagesOneMore(page, totalPages) == page <= totalPages + 1

\* a loop head that never sees the last page
MorePagesAlways(page, totalPages) == TRUE

MorePages(page, totalPages) == page <= totalPages

LoopContinues(page, totalPages, attempts) ==
  MorePages(page, totalPages) /\ attempts < maxAttempts

Finish(r, result, fields) ==
  run' = [run EXCEPT ![r] = [fields EXCEPT !.pc = "idle", !.result = result]]

\* the URL parameters of the request for cur.page
Request(cur) ==
  [cur EXCEPT !.pc = "request", !.delay = 0,
     !.req = [page |-> cur.page,
              from |-> IF cur.found THEN cur.fromTimestamp ELSE NoFrom]]

\* the ribbon icon, the command or the timer calls syncTracks: the checks
\* of the settings and the resume-point scan, up to the first request
StartRun(r) ==
  LET fresh == [IdleRun EXCEPT !.before = [records |-> records, history |-> history]]
  IN
  /\ starts' = starts + 1
  /\ IF settings.apiKey = "" \/ settings.username = ""
     THEN Finish(r, "nocreds", fresh)
     ELSE \E folderExists \in BOOLEAN :
            IF ~folderExists
            THEN Finish(r, "nohistfolder", fresh)
            ELSE LET rp == ResumePoint(history, dstZone)
                 IN  run' = [run EXCEPT ![r] =
                       Request([fresh EXCEPT !.found = rp.found,
                          !.lastFetchedTimestamp = rp.ts,
                          !.fromTimestamp = IF rp.found THEN rp.ts + 1 ELSE 0])]
  /\ UNCHANGED <<settings, dstZone, remote, records, history, obs, auto>>

syncTracks(r) ==
  /\ ~InFlight(r)
  /\ starts < MaxStarts
  /\ StartRun(r)

PolitenessDelay == 2000
BackoffDelay(status) == IF status = "429" THEN 30000 ELSE 5000

\* the code after the fetch loop, up to the first vault operation
AfterFetch(r, cur) ==
  LET tn == TrulyNew(cur.allNewTracks, cur.lastFetchedTimestamp)
  IN  IF cur.allNewTracks = <<>> THEN Finish(r, "nonew", cur)
      ELSE IF tn = <<>> THEN Finish(r, "allrecorded", cur)
      ELSE run' = [run EXCEPT ![r] =
             [cur EXCEPT !.pc = "write", !.trulyNewTracks = tn,
                         !.trackGroups = TrackGroups(tn, dstZone),
                         !.historyPlays = HistoryPlays(tn, dstZone),
                         !.gi = 1, !.hi = 1]]

\* the declared count taken as it is, also without a resume point
NextTotalPagesUncapped(page, totalPages, found, declared) ==
  IF page = 1 /\ declared # NoAttr THEN declared ELSE totalPages

NextTotalPages(page, totalPages, found, declared) ==
  IF page = 1 /\ declared # NoAttr
  THEN IF ~found THEN 1 ELSE declared
  ELSE totalPages

\* the run's trace: its requests with their outcomes, and its delays
LogEntry(cur, outcome, n, declared) ==
  [page |-> cur.req.page, from |-> cur.req.from, outcome |-> outcome, n |-> n,
   declared |-> declared]

\* requestUrl resolves with a page
ResponseOk(r, declared, honoursFrom) ==
  LET cur == run[r]
      tracks == PageOf(IF cur.req.from # NoFrom /\ honoursFrom
                       THEN Matching(cur.req.from) ELSE remote, cur.req.page)
      tp == NextTotalPages(cur.page, cur.totalPages, cur.found, declared)
      logged == [cur EXCEPT !.totalPages = tp,
                            !.log = Append(@, LogEntry(cur, "ok", Len(tracks), declared))]
      pushed == [logged EXCEPT !.allNewTracks = @ \o tracks, !.page = @ + 1]
  IN  /\ cur.pc = "request"
      /\ (cur.page # 1 => declared = NoAttr)
      /\ (cur.req.from = NoFrom => honoursFrom)
      /\ IF tracks = <<>> THEN AfterFetch(r, logged)
         ELSE IF MorePages(pushed.page, pushed.totalPages)
              THEN run' = [run EXCEPT ![r] =
                     [pushed EXCEPT !.pc = "politeness", !.delay = PolitenessDelay]]
              ELSE AfterFetch(r, pushed)
      /\ UNCHANGED <<settings, dstZone, remote, records, history, starts, auto>>
      /\ Observe(r)

\* a retry granted once more than the code grants it
MayRetryOffByOne(status, attempts) ==
  status \in {"500", "429"} /\ attempts < maxAttempts

MayRetry(status, attempts) ==
  status \in {"500", "429"} /\ attempts < maxAttempts - 1

\* a failure that falls through to the code after the loop
OnFailureCommits(r, cur) == AfterFetch(r, cur)

\* the notice "Sync failed" and the return
OnFailure(r, cur) == Finish(r, "failed", cur)

\* requestUrl rejects, or the body carries an error
ResponseError(r, status) ==
  LET cur == run[r]
      logged == [cur EXCEPT !.log = Append(@,
                   LogEntry(cur, IF status \in {"500", "429"} THEN "transient" ELSE "fatal",
                            0, NoAttr))]
  IN  /\ cur.pc = "request"
      /\ IF MayRetry(status, cur.attempts)
         THEN run' = [run EXCEPT ![r] =
                [logged EXCEPT !.attempts = @ + 1, !.pc = "backoff",
                               !.delay = BackoffDelay(status)]]
         ELSE OnFailure(r, logged)
      /\ UNCHANGED <<settings, dstZone, remote, records, history, starts, auto>>
      /\ Observe(r)

\* a setTimeout (politeness delay or retry backoff) fires: the loop head
Delay(r) ==
  LET cur == [run[r] EXCEPT !.log = Append(@, LogEntry(run[r], run[r].pc, 0, NoAttr))]
  IN  /\ cur.pc \in {"politeness", "backoff"}
      /\ IF LoopContinues(cur.page, cur.totalPages, cur.attempts)
         THEN run' = [run EXCEPT ![r] = Request(cur)]
         ELSE AfterFetch(r, [cur EXCEPT !.delay = 0])
      /\ UNCHANGED <<settings, dstZone, remote, records, history, starts, auto>>
      /\ Observe(r)

\* ----------------------------------------------------------- store writer
\* vault.create / vault.modify: the file holds the content afterwards
WriteFile(files, path, content) ==
  [p \in DOMAIN files \cup {path} |-> IF p = path THEN content ELSE files[p]]

\* the pc after the group loop has handled group gi
AfterGroup(cur) ==
  IF cur.gi < Len(cur.trackGroups)
  THEN [cur EXCEPT !.gi = @ + 1, !.pc = "write", !.buf = <<>>]
  ELSE [cur EXCEPT !.gi = @ + 1, !.pc = "append", !.buf = <<>>]

\* one iteration of the group loop up to its await: the record is created
\* when the file is absent, and read when it is there
WriteGroup(r) ==
  LET cur == run[r]
      g == cur.trackGroups[cur.gi]
  IN  /\ cur.pc = "write"
      /\ IF g.fileName \notin DOMAIN records
         THEN /\ records' = WriteFile(records, g.fileName, buildNewTrackContent(g))
              /\ run' = [run EXCEPT ![r] =
                   [AfterGroup(cur) EXCEPT !.contributed = @ + records'[g.fileName].play_count]]
         ELSE /\ records' = records
              /\ run' = [run EXCEPT ![r] =
                   [cur EXCEPT !.pc = "modify", !.buf = records[g.fileName]]]
      /\ UNCHANGED <<settings, dstZone, remote, history, starts, obs, auto>>

\* vault.read has resolved: the content is updated and written back
ModifyRecord(r) ==
  LET cur == run[r]
      g == cur.trackGroups[cur.gi]
  IN  /\ cur.pc = "modify"
      /\ records' = WriteFile(records, g.fileName,
                              updateTrackContent(cur.buf, g.count, g.latestIso))
      /\ run' = [run EXCEPT ![r] =
           [AfterGroup(cur) EXCEPT !.contributed =
              @ + records'[g.fileName].play_count - records[g.fileName].play_count]]
      /\ UNCHANGED <<settings, dstZone, remote, history, starts, obs, auto>>

\* appendToHistory up to its await: adapter.read of the year's log
AppendRead(r) ==
  LET cur == run[r]
      play == cur.historyPlays[cur.hi]
      year == YearOf(play.dateIso)
  IN  /\ cur.pc = "append"
      /\ run' = [run EXCEPT ![r] =
           [cur EXCEPT !.pc = "splice",
              !.buf = IF year \notin DOMAIN history THEN DefaultHistory ELSE history[year]]]
      /\ UNCHANGED <<settings, dstZone, remote, records, history, starts, obs, auto>>

\* the rest of appendToHistory: the duplicate guard, the splice and the
\* write; after the last play the run ends with its summary
AppendWrite(r) ==
  LET cur == run[r]
      play == cur.historyPlays[cur.hi]
      year == YearOf(play.dateIso)
      entry == Entry(play.dateIso, LinkName(play.fileName))
      next == [cur EXCEPT !.hi = @ + 1, !.buf = <<>>]
  IN  /\ cur.pc = "splice"
      /\ history' = IF Includes(cur.buf, entry) THEN history
                    ELSE WriteFile(history, year, WithEntry(cur.buf, entry))
      /\ IF cur.hi < Len(cur.historyPlays)
         THEN run' = [run EXCEPT ![r] = [next EXCEPT !.pc = "append"]]
         ELSE Finish(r, "done", next)
      /\ UNCHANGED <<settings, dstZone, remote, records, starts, auto>>
      /\ Observe(r)

\* a vault operation of the writer rejects, or the app closes: the run ends
\* where it is
Interrupt(r) ==
  /\ run[r].pc \in WriterPcs
  /\ Finish(r, "interrupted", run[r])
  /\ UNCHANGED <<settings, dstZone, remote, records, history, starts, auto>>
  /\ Observe(r)

Statuses == {"429", "500", "error"}
Declarable == {NoAttr} \cup (0..MaxDeclared)

\* the triggers used one at a time: a run starts only when none is in flight
Next ==
  \/ SetCredentials
  \/ \E p \in Plays : Scrobble(p[1], p[2])
  \/ (\A q \in Runs : ~InFlight(q)) /\ syncTracks(1)
  \/ \E declared \in Declarable, honoursFrom \in BOOLEAN :
       ResponseOk(1, declared, honoursFrom)
  \/ \E status \in Statuses : ResponseError(1, status)
  \/ Delay(1)
  \/ WriteGroup(1)
  \/ ModifyRecord(1)
  \/ AppendRead(1)
  \/ AppendWrite(1)
  \/ Interrupt(1)

Spec == Init /\ [][Next]_vars

\* Every awaited operation of a run returns in the end: the request resolves
\* or rejects, a timeout fires, a vault operation completes.
Returns ==
  \/ \E status \in Statuses : ResponseError(1, status)
  \/ \E declared \in Declarable, honoursFrom \in BOOLEAN :
       ResponseOk(1, declared, honoursFrom)
  \/ Delay(1)
  \/ WriteGroup(1)
  \/ ModifyRecord(1)
  \/ AppendRead(1)
  \/ AppendWrite(1)

SpecLive == Init /\ [][Next]_vars /\ WF_vars(Returns)

\* the triggers as the code has them: nothing keeps a second invocation from
\* beginning while the first is suspended at an await.  The environment is
\* kept small here: the vault of an earlier session, a service that answers
\* every request and honours the from parameter, three possible plays.
PlaysOverlap ==
  {<<IdSlash, Ts(CurrentYear, 2)>>, <<IdColon, Ts(CurrentYear, 2)>>,
   <<IdY, Ts(CurrentYear, 2)>>}

InitOverlap == Init /\ settings.apiKey # ""

NextOverlap ==
  \/ \E p \in PlaysOverlap : Scrobble(p[1], p[2])
  \/ \E r \in Runs : (\A q \in 1..(r - 1) : InFlight(q)) /\ syncTracks(r)
  \/ \E r \in Runs, declared \in Declarable : ResponseOk(r, declared, TRUE)
  \/ \E r \in Runs : Delay(r)
  \/ \E r \in Runs : WriteGroup(r)
  \/ \E r \in Runs : ModifyRecord(r)
  \/ \E r \in Runs : AppendRead(r)
  \/ \E r \in Runs : AppendWrite(r)
  \/ \E r \in Runs : Interrupt(r)

SpecOverlap == InitOverlap /\ [][NextOverlap]_vars

\* The writer on its own: the state after a fetch of one page (200 events in
\* the source) whose events the service is free to choose and to order, over
\* an empty vault, the vault of an earlier session, or that vault with the
\* record's play_count edited by hand.
MaxFetched == 3         \* events of the fetched page at most

IdPadded == <<<<" ", "a">>, NameSlash>>
AlbumL == <<"L">>
AlbumM == <<"M">>
ImagesFor(album) ==
  IF album = AlbumL THEN ImagesAt(1) ELSE ImagesAt(2)

FetchedTracks ==
  {[artist |-> id[1], name |-> id[2], uts |-> uts, album |-> album,
    image |-> ImagesFor(album)] :
      id \in {IdSlash, IdPadded, IdColon},
      uts \in {Ts(CurrentYear, 1), Ts(CurrentYear, 2)},
      album \in {AlbumL, AlbumM}}
    \cup {Track(IdY, NoUts)}

FetchedPages ==
  UNION {[1..n -> FetchedTracks] : n \in 1..MaxFetched}

EditedRecords(dst) ==
  [f \in DOMAIN SeedRecords(dst) |->
     [SeedRecords(dst)[f] EXCEPT !.play_count = Malformed]]

InitWriter ==
  /\ dstZone \in BOOLEAN
  /\ settings = [apiKey |-> "k", username |-> "u", autoSyncEnabled |-> FALSE]
  /\ remote = <<>>
  /\ \E vault \in {"empty", "seeded", "edited"} :
       /\ records = CASE vault = "empty" -> <<>>
                      [] vault = "seeded" -> SeedRecords(dstZone)
                      [] vault = "edited" -> EditedRecords(dstZone)
       /\ history = IF vault = "empty" THEN <<>> ELSE SeedHistory(dstZone)
  /\ \E all \in FetchedPages :
       LET rp == ResumePoint(history, dstZone)
           from == IF rp.found THEN rp.ts + 1 ELSE NoFrom
           tn == TrulyNew(all, rp.ts)
           cur == [IdleRun EXCEPT
                     !.found = rp.found, !.lastFetchedTimestamp = rp.ts,
                     !.fromTimestamp = IF rp.found THEN rp.ts + 1 ELSE 0,
                     !.before = [records |-> records, history |-> history],
                     !.req = [page |-> 1, from |-> from], !.page = 2,
                     !.log = <<[page |-> 1, from |-> from, outcome |-> "ok",
                                n |-> Len(all), declared |-> 1]>>,
                     !.allNewTracks = all, !.trulyNewTracks = tn,
                     !.trackGroups = TrackGroups(tn, dstZone),
                     !.historyPlays = HistoryPlays(tn, dstZone),
                     !.pc = "write"]
       IN  /\ tn # <<>>
           /\ run = [r \in Runs |-> IF r = 1 THEN cur ELSE IdleRun]
  /\ starts = 1
  /\ obs = NoObs
  /\ autoSyncIntervalId = Null
  /\ window = NoTimers
  /\ toggles = <<>>

NextWriter ==
  \/ WriteGroup(1)
  \/ ModifyRecord(1)
  \/ AppendRead(1)
  \/ AppendWrite(1)

SpecWriter == InitWriter /\ [][NextWriter]_vars

\* ------------------------------------------------------------- auto-sync
MaxIntervals == 3       \* interval timers the runtime hands out
MaxToggles == 2         \* toggle handlers suspended at the same time

\* window.setInterval: a timer with an id the runtime has not given before
setInterval(w) ==
  [intervals |-> w.intervals \cup {w.lastId + 1}, lastId |-> w.lastId + 1]

\* window.clearInterval
clearInterval(w, id) == [w EXCEPT !.intervals = @ \ {id}]

enableAutoSync ==
  IF autoSyncIntervalId # Null
  THEN UNCHANGED <<autoSyncIntervalId, window>>
  ELSE /\ window.lastId < MaxIntervals
       /\ window' = setInterval(window)
       /\ autoSyncIntervalId' = window'.lastId

\* a disableAutoSync that forgets the timer without clearing it
disableAutoSyncKeepsTimer ==
  IF autoSyncIntervalId = Null
  THEN UNCHANGED <<autoSyncIntervalId, window>>
  ELSE /\ window' = window
       /\ autoSyncIntervalId' = Null

disableAutoSync ==
  IF autoSyncIntervalId = Null
  THEN UNCHANGED <<autoSyncIntervalId, window>>
  ELSE /\ window' = clearInterval(window, autoSyncIntervalId)
       /\ autoSyncIntervalId' = Null

\* the end of onload: the timer is started when the loaded settings say so
onload ==
  /\ IF settings.autoSyncEnabled
     THEN enableAutoSync
     ELSE UNCHANGED <<autoSyncIntervalId, window>>
  /\ UNCHANGED <<settings, dstZone, remote, records, history, run, starts, obs, toggles>>

\* a direct call of the public method
CallEnableAutoSync ==
  /\ enableAutoSync
  /\ UNCHANGED <<settings, dstZone, remote, records, history, run, starts, obs, toggles>>

CallDisableAutoSync ==
  /\ disableAutoSync
  /\ UNCHANGED <<settings, dstZone, remote, records, history, run, starts, obs, toggles>>

\* the settings tab's toggle is flipped: the handler stores the value and
\* awaits saveSettings
Toggle(value) ==
  /\ value # settings.autoSyncEnabled
  /\ Len(toggles) < MaxToggles
  /\ settings' = [settings EXCEPT !.autoSyncEnabled = value]
  /\ toggles' = Append(toggles, value)
  /\ UNCHANGED <<dstZone, remote, records, history, run, starts, obs,
                 autoSyncIntervalId, window>>

\* saveSettings of a suspended toggle handler returns: the rest of the handler
Saved(i) ==
  /\ i \in DOMAIN toggles
  /\ IF toggles[i] THEN enableAutoSync ELSE disableAutoSync
  /\ toggles' = SubSeq(toggles, 1, i - 1) \o SubSeq(toggles, i + 1, Len(toggles))
  /\ UNCHANGED <<settings, dstZone, remote, records, history, run, starts, obs>>

\* an active interval timer fires: its callback calls syncTracks
Tick(id) ==
  /\ id \in window.intervals
  /\ syncTracks(1)

\* a fresh vault; the stored settings have auto-sync on or off
InitTimer ==
  /\ dstZone \in BOOLEAN
  /\ \E enabled \in BOOLEAN :
       settings = [apiKey |-> "", username |-> "", autoSyncEnabled |-> enabled]
  /\ remote = <<>>
  /\ records = <<>>
  /\ history = <<>>
  /\ run = [r \in Runs |-> IdleRun]
  /\ starts = 0
  /\ obs = NoObs
  /\ autoSyncIntervalId = Null
  /\ window = NoTimers
  /\ toggles = <<>>

NextTimer ==
  \/ onload
  \/ CallEnableAutoSync
  \/ CallDisableAutoSync
  \/ \E value \in BOOLEAN : Toggle(value)
  \/ \E i \in 1..MaxToggles : Saved(i)
  \/ \E id \in 1..MaxIntervals : Tick(id)
  \/ SetCredentials
  \/ \E declared \in Declarable, honoursFrom \in BOOLEAN :
       ResponseOk(1, declared, honoursFrom)
  \/ \E status \in Statuses : ResponseError(1, status)
  \/ Delay(1)

SpecTimer == InitTimer /\ [][NextTimer]_vars

\* ================================================================ claims
IsRequest(e) == e.outcome \in {"ok", "transient", "fatal"}
Requests(log) == SelectSeq(log, IsRequest)
Transients(log) == Cardinality({i \in DOMAIN log : log[i].outcome = "transient"})
Fatal(log) == \E i \in DOMAIN log : log[i].outcome = "fatal"

RECURSIVE SumN(_)
SumN(log) == IF log = <<>> THEN 0 ELSE Head(log).n + SumN(Tail(log))

RECURSIVE SumCount(_)
SumCount(groups) == IF groups = <<>> THEN 0 ELSE Head(groups).count + SumCount(Tail(groups))

Ended(r, results) == run[r].pc = "idle" /\ run[r].result \in results
\* the fetch loop of run r is over and its events went through the filter
PastFetch(r) ==
  run[r].pc \in WriterPcs \/ Ended(r, {"done", "interrupted", "allrecorded"})

\* C3: at no time are two sync runs in progress against the same store: a
\* run never begins while an earlier invocation is suspended at an await.
C3_OneRunAtATime == Cardinality({r \in Runs : InFlight(r)}) <= 1

\* C4: with the resolved watermark W, every fetched event with timestamp
\* <= W is dropped before aggregation (it is in no group and no history
\* play) and every fetched event with timestamp >= W + 1 survives.
C4_WatermarkBoundary ==
  \A r \in Runs :
    PastFetch(r) =>
      LET cur == run[r]
          W == cur.lastFetchedTimestamp
          all == cur.allNewTracks
          kept == {i \in DOMAIN all : all[i].uts >= W + 1}
      IN  /\ \A i \in DOMAIN all :
               /\ (all[i].uts # NoUts /\ all[i].uts <= W) =>
                    ~\E j \in DOMAIN cur.trulyNewTracks : cur.trulyNewTracks[j] = all[i]
               /\ all[i].uts >= W + 1 =>
                    \E j \in DOMAIN cur.trulyNewTracks : cur.trulyNewTracks[j] = all[i]
          /\ Len(cur.trulyNewTracks) = Cardinality(kept)
          /\ SumCount(cur.trackGroups) = Cardinality(kept)
          /\ Len(cur.historyPlays) = Cardinality(kept)
          /\ \A j \in DOMAIN cur.historyPlays : cur.historyPlays[j].ts >= W + 1

\* a run with a watermark W fetched an event at exactly W and one at W + 1
C4_Witness ==
  \E r \in Runs :
    /\ run[r].found /\ run[r].pc \in WriterPcs
    /\ \E i, j \in DOMAIN run[r].allNewTracks :
         /\ run[r].allNewTracks[i].uts = run[r].lastFetchedTimestamp
         /\ run[r].allNewTracks[j].uts = run[r].lastFetchedTimestamp + 1
    /\ Len(run[r].trulyNewTracks) = 1

Started(r) == run[r].pc # "idle" \/ run[r].result # "none"
StoreAsBefore(r) ==
  records = run[r].before.records /\ history = run[r].before.history
\* the fetch loop of run r is over without a failure
FetchOver(r) == PastFetch(r) \/ Ended(r, {"nonew"})
NoFailure(log) == Transients(log) = 0 /\ ~Fatal(log)

\* C5: a run that ends before the writer loop (missing API key or username,
\* a fatal or retry-exhausted fetch failure on any page, zero events fetched,
\* or every fetched event at or below the watermark) creates and modifies no
\* track record and no history log; with missing credentials it issues no
\* request either.
C5_NoChangeBeforeWriter ==
  \A r \in Runs :
    Started(r) =>
      LET cur == run[r]
          all == cur.allNewTracks
      IN  /\ Ended(r, {"nocreds", "nohistfolder", "failed", "nonew", "allrecorded"})
               => StoreAsBefore(r)
          /\ (cur.pc \in FetchPcs) => StoreAsBefore(r)
          /\ Ended(r, {"nocreds"}) => cur.log = <<>> /\ cur.req.page = 0
          /\ (Fatal(cur.log) \/ Transients(cur.log) >= maxAttempts)
               => cur.pc \notin WriterPcs /\ StoreAsBefore(r)
          /\ (\A i \in DOMAIN all : all[i].uts <= cur.lastFetchedTimestamp)
               => cur.pc \notin WriterPcs /\ StoreAsBefore(r)

\* a run over a vault with records fetched a page and then failed for good
C5_Witness ==
  /\ Ended(1, {"failed"})
  /\ Len(run[1].allNewTracks) >= 1
  /\ records # <<>>
  /\ \E i \in DOMAIN run[1].allNewTracks :
       run[1].allNewTracks[i].uts > run[1].lastFetchedTimestamp

\* C6: a request that fails with 429 or 500 is followed, after a backoff
\* delay, by a request for the same page, and nothing of the failed attempt
\* is added; at most maxAttempts transient failures occur in a run, counted
\* over all pages, and the one that reaches the ceiling aborts the run.  A
\* run with a watermark whose page 1 declares 3 pages and whose page 2 fails
\* twice and then succeeds ends its fetch with the events of all 3 pages.
C6_RetryPolicy ==
  \A r \in Runs :
    LET cur == run[r]
        log == cur.log
        reqs == Requests(log)
    IN  /\ \A i \in DOMAIN log :
             log[i].outcome = "transient" =>
               /\ log[i].n = 0
               /\ IF i = Len(log)
                  THEN \/ cur.pc = "backoff" /\ cur.page = log[i].page
                       \/ Ended(r, {"failed"}) /\ Transients(log) = maxAttempts
                  ELSE log[i + 1].outcome = "backoff"
               /\ (i + 2 <= Len(log)) =>
                    /\ IsRequest(log[i + 2])
                    /\ log[i + 2].page = log[i].page
                    /\ log[i + 2].from = log[i].from
        /\ Transients(log) <= maxAttempts
        /\ Transients(log) = maxAttempts =>
             Ended(r, {"failed"}) /\ log[Len(log)].outcome = "transient"
        /\ Ended(r, {"failed"}) => Fatal(log) \/ Transients(log) = maxAttempts
        /\ Len(cur.allNewTracks) = SumN(log)
        /\ ( /\ cur.found
             /\ Len(reqs) = 5
             /\ reqs[1].outcome = "ok" /\ reqs[1].declared = 3 /\ reqs[1].n > 0
             /\ reqs[2].outcome = "transient" /\ reqs[2].page = 2
             /\ reqs[3].outcome = "transient" /\ reqs[3].page = 2
             /\ reqs[4].outcome = "ok" /\ reqs[4].n > 0
             /\ reqs[5].outcome = "ok" /\ reqs[5].n > 0 )
           => /\ reqs[4].page = 2 /\ reqs[5].page = 3
              /\ FetchOver(r)
              /\ Len(cur.allNewTracks) = reqs[1].n + reqs[4].n + reqs[5].n

\* page 1 declared 3 pages, page 2 failed twice and then succeeded, page 3
\* was fetched, and the run went on to write
C6_Witness ==
  LET reqs == Requests(run[1].log)
  IN  /\ run[1].found
      /\ Len(reqs) = 5
      /\ reqs[1].declared = 3
      /\ reqs[2].outcome = "transient" /\ reqs[3].outcome = "transient"
      /\ reqs[4].outcome = "ok" /\ reqs[4].page = 2
      /\ reqs[5].outcome = "ok" /\ reqs[5].page = 3
      /\ Len(run[1].allNewTracks) = 3
      /\ run[1].pc \in WriterPcs

\* C7: a run whose resolver found no watermark requests page 1 only, without
\* a from parameter, whatever totalPages the response declares.
C7_BootstrapCap ==
  \A r \in Runs :
    (Started(r) /\ ~run[r].found) =>
      LET log == run[r].log
      IN  /\ \A i \in DOMAIN log :
               /\ log[i].outcome # "politeness"
               /\ IsRequest(log[i]) => log[i].page = 1 /\ log[i].from = NoFrom
          /\ Cardinality({i \in DOMAIN log : log[i].outcome = "ok"}) <= 1
          /\ run[r].req.page <= 1
          /\ run[r].req.from = NoFrom
          /\ (\E i \in DOMAIN log : log[i].outcome = "ok" /\ log[i].n > 0)
               => FetchOver(r) /\ run[r].totalPages <= 1

\* a bootstrap run whose only page declared MaxDeclared pages went on to write
C7_Witness ==
  /\ ~run[1].found
  /\ run[1].pc \in WriterPcs
  /\ Len(remote) >= 2
  /\ \E i \in DOMAIN run[1].log :
       run[1].log[i].outcome = "ok" /\ run[1].log[i].declared = MaxDeclared

\* C8 (as stated): with a watermark W and no failure the pages fetched are
\* 1, 2, ..., k in order, each request with from = W + 1, and k is the
\* totalPages page 1 declared unless a page came back empty, which ends the
\* pagination at that page.
C8_PaginationAsDeclared ==
  \A r \in Runs :
    (Started(r) /\ run[r].found /\ NoFailure(run[r].log)) =>
      LET oks == Requests(run[r].log)
          k == Len(oks)
      IN  /\ \A i \in DOMAIN oks :
               /\ oks[i].page = i
               /\ oks[i].from = run[r].lastFetchedTimestamp + 1
               /\ oks[i].n = 0 => i = k
          /\ (FetchOver(r) /\ oks[1].declared # NoAttr) =>
               oks[k].n = 0 \/ k = oks[1].declared

\* C8 (amended): as above, with k the declared totalPages or 1 when page 1
\* declares less than one page or no count at all: page 1 is always fetched.
\* The events of the pages fetched are all aggregated, and the run goes on
\* to write when one of them is newer than W.
C8_Pagination ==
  \A r \in Runs :
    (Started(r) /\ run[r].found /\ NoFailure(run[r].log)) =>
      LET cur == run[r]
          oks == Requests(cur.log)
          k == Len(oks)
          W == cur.lastFetchedTimestamp
      IN  /\ \A i \in DOMAIN oks :
               /\ oks[i].page = i
               /\ oks[i].from = W + 1
               /\ oks[i].n = 0 => i = k
          /\ cur.pc = "request" => cur.req = [page |-> k + 1, from |-> W + 1]
          /\ Len(cur.allNewTracks) = SumN(cur.log)
          /\ FetchOver(r) =>
               /\ k >= 1
               /\ oks[k].n = 0
                    \/ k = (IF oks[1].declared = NoAttr THEN 1
                            ELSE Max(1, oks[1].declared))
               /\ (\E i \in DOMAIN cur.allNewTracks : cur.allNewTracks[i].uts > W)
                    => PastFetch(r) /\ ~Ended(r, {"allrecorded"})
          /\ ~FetchOver(r) =>
               k < (IF k = 0 \/ oks[1].declared = NoAttr THEN 1
                    ELSE Max(1, oks[1].declared))
                 \/ cur.pc = "idle"

\* a run with a watermark fetched the two pages that page 1 declared, both
\* with events, and went on to write
C8_Witness ==
  LET oks == Requests(run[1].log)
  IN  /\ run[1].found /\ NoFailure(run[1].log)
      /\ Len(oks) = 2
      /\ oks[1].declared = 2
      /\ oks[1].n > 0 /\ oks[2].n > 0
      /\ run[1].pc \in WriterPcs

\* the record file an event is written to
EventFile(t) == TrackGroups(<<t>>, dstZone)[1].fileName

\* C1: a complete run that follows a complete run, with the same remote
\* events and nothing else touching the vault in between, adds no history
\* entry and changes no play_count.
C1_Idempotent ==
  obs.same = 2 =>
    /\ history = obs.history
    /\ DOMAIN records = DOMAIN obs.records
    /\ \A f \in DOMAIN records : records[f].play_count = obs.records[f].play_count

\* C2: after a run was interrupted in the writer and a later run over the
\* same remote events completed, no record counts a play twice: a record's
\* play_count does not exceed the dated remote events that belong to it.
C2_NoDoubleCount ==
  obs.pending = "recovered" =>
    \A f \in DOMAIN records :
      records[f].play_count <=
        Cardinality({i \in DOMAIN remote :
                       remote[i].uts # NoUts /\ EventFile(remote[i]) = f})

\* C9: in a run that completed the writer, the play counts contributed to
\* records (the play_count of each record created plus the increase of each
\* record updated) add up to the number of events that passed the filter.
C9_Conservation ==
  \A r \in Runs :
    Ended(r, {"done"}) => run[r].contributed = Len(run[r].trulyNewTracks)

\* C10: no write to a record stores a last_listened_at earlier than the one
\* the record held before.
C10_ForwardOnly ==
  [][\A f \in DOMAIN records :
       f \in DOMAIN records' =>
         IsoLeq(records[f].last_listened_at, records'[f].last_listened_at)]_vars

EntryOf(play) == Entry(play.dateIso, LinkName(play.fileName))
LinePos(lines, e) ==
  CHOOSE i \in DOMAIN lines : lines[i] = e /\ \A j \in 1..(i - 1) : lines[j] # e

\* the entry of play p was not in the store when run r began
NewToStore(r, p) ==
  LET y == YearOf(p.dateIso)
      old == run[r].before.history
  IN  y \notin DOMAIN old \/ ~Includes(old[y], EntryOf(p))

\* C12: of two entries that one run inserted into the same history log for
\* plays with different timestamps, the one with the larger timestamp lies
\* above the other.
C12_HistoryOrder ==
  \A r \in Runs :
    LET plays == run[r].historyPlays
    IN  \A i, j \in 1..(run[r].hi - 1) :
          ( /\ plays[i].ts < plays[j].ts
            /\ YearOf(plays[i].dateIso) = YearOf(plays[j].dateIso)
            /\ EntryOf(plays[i]) # EntryOf(plays[j])
            /\ NewToStore(r, plays[i]) /\ NewToStore(r, plays[j]) )
          => LET lines == history[YearOf(plays[i].dateIso)]
             IN  /\ Includes(lines, EntryOf(plays[i]))
                 /\ Includes(lines, EntryOf(plays[j]))
                 /\ LinePos(lines, EntryOf(plays[j])) < LinePos(lines, EntryOf(plays[i]))

\* a run has inserted two entries with different timestamps into one log
\* that held an entry before
C12_Witness ==
  /\ Ended(1, {"done"})
  /\ \E i, j \in DOMAIN run[1].historyPlays :
       LET plays == run[1].historyPlays
       IN  /\ plays[i].ts < plays[j].ts
           /\ YearOf(plays[i].dateIso) = YearOf(plays[j].dateIso)
           /\ EntryOf(plays[i]) # EntryOf(plays[j])
           /\ NewToStore(1, plays[i]) /\ NewToStore(1, plays[j])
           /\ YearOf(plays[i].dateIso) \in DOMAIN run[1].before.history

NoDuplicateEntry(lines) ==
  \A i, j \in DOMAIN lines : (IsEntry(lines[i]) /\ lines[i] = lines[j]) => i = j

\* new is old with the line e put in at one place, nothing else changed
OneLineAdded(old, new, e) ==
  \E at \in 1..(Len(old) + 1) :
    new = SubSeq(old, 1, at - 1) \o <<e>> \o SubSeq(old, at, Len(old))

\* the file of year y before a step, as appendToHistory reads it
LogBefore(y) == IF y \in DOMAIN history THEN history[y] ELSE DefaultHistory

\* C13: no history log holds the same entry line twice; a call of
\* appendToHistory whose entry is in the file leaves every file as it is,
\* and a call whose entry is not in the file adds that one line to it and
\* removes none.
C13_NoDuplicateEntries ==
  [][ /\ \A y \in DOMAIN history' : NoDuplicateEntry(history'[y])
      /\ DOMAIN history \subseteq DOMAIN history'
      /\ \A r \in Runs :
           (run[r].pc = "splice" /\ run'[r].pc # "splice" /\ run'[r].result # "interrupted") =>
             LET play == run[r].historyPlays[run[r].hi]
                 y == YearOf(play.dateIso)
                 e == EntryOf(play)
             IN  IF Includes(LogBefore(y), e)
                 THEN history' = history
                 ELSE /\ y \in DOMAIN history'
                      /\ OneLineAdded(LogBefore(y), history'[y], e)
                      /\ \A z \in DOMAIN history : z # y => history'[z] = history[z]
    ]_vars

\* the grouping key of an event: its trimmed artist and track name
KeyOf(t) == GroupKey(OrUnknown(t.artist), OrUnknown(t.name))

\* C14: every group of a run has count >= 1 equal to the number of surviving
\* events of its identity, firstTs and latestTs are the least and the
\* greatest timestamp of these events, firstTs <= latestTs, and latestIso,
\* album and coverUrl are those of the first event in fetch order that has
\* the greatest timestamp; every surviving event is in exactly one group.
C14_GroupAggregate ==
  \A r \in Runs :
    LET tn == run[r].trulyNewTracks
        groups == run[r].trackGroups
    IN  /\ \A i \in DOMAIN tn : \E k \in DOMAIN groups : groups[k].key = KeyOf(tn[i])
        /\ \A k, l \in DOMAIN groups : groups[k].key = groups[l].key => k = l
        /\ \A k \in DOMAIN groups :
             LET g == groups[k]
                 mine == {i \in DOMAIN tn : KeyOf(tn[i]) = g.key}
                 top == {i \in mine : \A j \in mine : GroupTs(tn[j]) <= GroupTs(tn[i])}
                 m == CHOOSE i \in top : \A j \in top : i <= j
             IN  /\ g.count >= 1
                 /\ g.count = Cardinality(mine)
                 /\ g.firstTs <= g.latestTs
                 /\ \A i \in mine : g.firstTs <= GroupTs(tn[i]) /\ GroupTs(tn[i]) <= g.latestTs
                 /\ \E i \in mine : GroupTs(tn[i]) = g.firstTs
                 /\ g.latestTs = GroupTs(tn[m])
                 /\ g.latestIso = timestampToLocalISO(GroupTs(tn[m]), dstZone)
                 /\ g.firstIso = timestampToLocalISO(g.firstTs, dstZone)
                 /\ g.album = Trim(tn[m].album)
                 /\ g.coverUrl = extractBestCover(tn[m].image)

\* one identity fetched three times: the oldest play first, then two plays
\* that share the greatest timestamp and differ in album; the run has
\* written the group
C14_Witness ==
  LET tn == run[1].trulyNewTracks
  IN  /\ Len(tn) = 3 /\ Len(run[1].trackGroups) = 1
      /\ tn[1].uts < tn[2].uts /\ tn[2].uts = tn[3].uts
      /\ tn[2].album # tn[3].album /\ tn[1].album # tn[2].album
      /\ run[1].trackGroups[1].count = 3
      /\ run[1].gi = 2

\* the timestamps of the entries of the logs of the years in Y, as the
\* resolver parses them
EntryTimes(Y) ==
  UNION {{localISOToTimestamp(history[y][i][2], dstZone) :
            i \in {j \in DOMAIN history[y] : IsEntry(history[y][j])}} :
         y \in DOMAIN history \cap Y}

Greatest(S) == CHOOSE x \in S : \A y \in S : y <= x

\* C15: whenever no run is in progress and some history log has an entry,
\* the resolver finds a watermark and it is the greatest timestamp over the
\* entries of all history logs.
C15_WatermarkIsMaximum ==
  ((\A r \in Runs : ~InFlight(r)) /\ EntryTimes(DOMAIN history) # {}) =>
    /\ ResumePoint(history, dstZone).found
    /\ ResumePoint(history, dstZone).ts = Greatest(EntryTimes(DOMAIN history))

\* C16: an event fetched without date.uts is kept: once the fetch is over it
\* is among the run's surviving events, with the collection time as its
\* timestamp in the history plays, and its group counts it.
C16_UndatedKept ==
  \A r \in Runs :
    PastFetch(r) =>
      \A i \in DOMAIN run[r].allNewTracks :
        LET t == run[r].allNewTracks[i]
        IN  t.uts = NoUts =>
              /\ \E j \in DOMAIN run[r].trulyNewTracks : run[r].trulyNewTracks[j] = t
              /\ \E k \in DOMAIN run[r].trackGroups : run[r].trackGroups[k].key = KeyOf(t)
              /\ \E h \in DOMAIN run[r].historyPlays : run[r].historyPlays[h].ts = NowTs

\* C17: an update of a record whose stored play_count does not parse leaves
\* the record with play_count equal to the group's count and with the
\* group's latest time as last_listened_at.
C17_MalformedRecovered ==
  [][\A r \in Runs :
       (run[r].pc = "modify" /\ run[r].buf.play_count = Malformed /\ run'[r].pc # "modify") =>
         LET g == run[r].trackGroups[run[r].gi]
         IN  /\ records'[g.fileName].play_count = g.count
             /\ records'[g.fileName].last_listened_at = g.latestIso]_vars

\* C18: two groups of a run, which have different keys, never have the same
\* record file name, and a record is only ever updated by a group of the
\* artist and track it was created for.
C18_OneRecordPerIdentity ==
  \A r \in Runs :
    LET groups == run[r].trackGroups
    IN  /\ \A k, l \in DOMAIN groups :
             k # l => groups[k].fileName # groups[l].fileName
        /\ \A k \in DOMAIN groups :
             (k < run[r].gi /\ groups[k].fileName \in DOMAIN records) =>
               /\ records[groups[k].fileName].artist = groups[k].artist
               /\ records[groups[k].fileName].track = groups[k].name

IsDelay(e) == e.outcome \in {"politeness", "backoff"}

\* C19: a run has one request outstanding at most, and between two requests
\* that follow each other it takes a delay: the politeness delay after a
\* page with events when more pages remain, a backoff delay after a 429 or
\* 500 (longer for 429); after the last page there is no delay.
C19_RequestSequencing ==
  \A r \in Runs :
    LET cur == run[r]
        log == cur.log
        last == log[Len(log)]
    IN  /\ \A i \in 1..(Len(log) - 1) :
             /\ log[i].outcome = "ok" =>
                  /\ log[i + 1].outcome = "politeness"
                  /\ log[i].n > 0
                  /\ log[i].page + 1 <= cur.totalPages
             /\ log[i].outcome = "transient" => log[i + 1].outcome = "backoff"
             /\ log[i].outcome # "fatal"
             /\ IsDelay(log[i]) => IsRequest(log[i + 1])
        /\ cur.pc = "request" =>
             /\ cur.delay = 0
             /\ log = <<>> \/ IsDelay(last)
        /\ cur.pc = "politeness" =>
             /\ cur.delay = PolitenessDelay
             /\ last.outcome = "ok" /\ last.n > 0
             /\ last.page + 1 <= cur.totalPages
        /\ cur.pc = "backoff" =>
             /\ cur.delay \in {BackoffDelay("429"), BackoffDelay("500")}
             /\ last.outcome = "transient"
        /\ BackoffDelay("429") > BackoffDelay("500") /\ BackoffDelay("500") > 0
        /\ (cur.pc \notin FetchPcs /\ log # <<>>) =>
             /\ IsRequest(last)
             /\ cur.delay = 0
             /\ last.outcome = "ok" =>
                  last.n = 0 \/ last.page >= cur.totalPages

\* a run took a politeness delay and a backoff delay and ended its fetch
\* with its last page
C19_Witness ==
  /\ run[1].pc \in WriterPcs
  /\ \E i \in DOMAIN run[1].log : run[1].log[i].outcome = "politeness"
  /\ \E i \in DOMAIN run[1].log : run[1].log[i].outcome = "backoff"
  /\ run[1].log[Len(run[1].log)].page = run[1].totalPages

OkCount(log) == Cardinality({i \in DOMAIN log : log[i].outcome = "ok"})
FailedCount(log) ==
  Cardinality({i \in DOMAIN log : log[i].outcome \in {"transient", "fatal"}})

\* C20 (the bound as stated): a run whose page 1 declared totalPages gets at
\* most that many successful requests.
C20_AtMostDeclaredPages ==
  \A r \in Runs :
    LET oks == SelectSeq(run[r].log, LAMBDA e : e.outcome = "ok")
    IN  (oks # <<>> /\ oks[1].declared # NoAttr) => Len(oks) <= oks[1].declared

\* C20 (amended): every syncTracks invocation ends, whatever the requests
\* return, given that every awaited operation returns; a run gets at most
\* max(1, totalPages) successful requests (page 1 is fetched before any count
\* is known; 1 when page 1 declares none) and at most maxAttempts failed ones.
C20_Termination ==
  /\ [](\A r \in Runs :
          LET oks == SelectSeq(run[r].log, LAMBDA e : e.outcome = "ok")
          IN  /\ oks # <<>> =>
                   Len(oks) <= (IF oks[1].declared = NoAttr THEN 1
                                ELSE Max(1, oks[1].declared))
              /\ FailedCount(run[r].log) <= maxAttempts)
  /\ InFlight(1) ~> ~InFlight(1)

\* a run that had successes, an empty page and failed requests has ended
C20_Witness ==
  /\ run[1].pc = "idle" /\ run[1].result \in {"done", "allrecorded"}
  /\ OkCount(run[1].log) >= 2
  /\ FailedCount(run[1].log) = maxAttempts - 1
  /\ run[1].log[Len(run[1].log)].n = 0

\* the plays of run r whose entry the history-append loop has yet to insert
Pending(r) ==
  {i \in run[r].hi..Len(run[r].historyPlays) :
     LET p == run[r].historyPlays[i]
         y == YearOf(p.dateIso)
     IN  y \notin DOMAIN history \/ ~Includes(history[y], EntryOf(p))}

\* C21: at every point of the history-append loop, each play of the run whose
\* entry has not yet been inserted has a timestamp strictly greater than the
\* watermark the resolver would derive from the history logs at that point.
C21_PendingAboveWatermark ==
  \A r \in Runs :
    run[r].pc \in {"append", "splice"} =>
      \A i \in Pending(r) :
        run[r].historyPlays[i].ts > ResumePoint(history, dstZone).ts

\* C22: at most one interval timer is active; enableAutoSync while a timer is
\* active and disableAutoSync while none is active change nothing; after
\* disableAutoSync no timer is left that would call syncTracks.
C22_SingleTimer ==
  /\ [](Cardinality(window.intervals) <= 1)
  /\ [][ /\ (window.intervals # {} /\ enableAutoSync)
            => UNCHANGED <<autoSyncIntervalId, window>>
         /\ (window.intervals = {} /\ disableAutoSync)
            => UNCHANGED <<autoSyncIntervalId, window>>
         /\ disableAutoSync => window'.intervals = {} ]_vars

\* a second timer was started after the first was cleared, it is the only one
\* active, and a timer has called syncTracks
C22_Witness ==
  /\ window.lastId >= 2
  /\ window.intervals = {autoSyncIntervalId}
  /\ toggles = <<>>
  /\ starts >= 1
====
